---- MODULE Spec2Model ----
(***************************************************************************)
(* Model of the archive-extraction samples of akoskm/unzip.  Every sample  *)
(* is a command-line program; one run of one sample is one behaviour.      *)
(* The libraries the samples call (zlib, minizlib, minizip-asm.js, fflate, *)
(* ...) are modelled by their possible outcomes: a call either returns its *)
(* result or throws.                                                       *)
(***************************************************************************)
EXTENDS Integers, Sequences, FiniteSets, TLC

VARIABLES
  prog,        \* which sample runs
  pc,          \* position of the run in the sample's code
  argc,        \* process.argv.slice(2).length
  inputExists, \* fs.existsSync(inputFile)
  payload,     \* the compressed input of the single-stream samples
  fsDirs,      \* directories of the file system (normalized paths)
  fsFiles,     \* files of the file system: path -> content
  log,         \* console output, in order
  exitCode,    \* "running", "exit0" or "exit1"
  calls,       \* decompression strategies called so far, in order
  ioFault,     \* an output write has thrown
  zIdx,        \* node-zlib: index of the strategy tried next
  now,         \* Date.now(), in milliseconds since the first run started
  startTime,   \* the sample's startTime
  lastProgress,\* minizlib: time of the last progress line
  totalBytes,  \* the sample's totalBytes counter
  inputStream, \* minizlib: "none", "flowing" or "destroyed"
  outState,    \* minizlib: write stream "none", "opening", "open"
  emitted,     \* minizlib: bytes the Unzip stream has emitted
  archive,     \* the entries of the input archive, in archive order
  entries,     \* the entry list the library returned to the sample
  fileCount,   \* fflate: the sample's fileCount counter
  dirCount,    \* fflate: the sample's dirCount counter
  idx,         \* index of the entry the extraction loop handles next
  extractedCount, \* the sample's extractedCount counter
  fileTypes,   \* the sample's fileTypes record: extension -> count
  errors,      \* per-entry errors printed with console.error, in order
  handle,      \* the archive handle: "none", "open" or "closed"
  closeCount,  \* number of close() calls on the archive handle
  first        \* history: how the previous run of the sample ended

zipVars == <<archive, entries, idx, extractedCount, fileCount, dirCount,
             fileTypes, errors, handle, closeCount>>

streamVars == <<payload, calls, zIdx, lastProgress, inputStream, outState, emitted>>

vars == <<prog, pc, argc, inputExists, fsDirs, fsFiles, log, exitCode,
          ioFault, now, startTime, totalBytes, streamVars, zipVars, first>>

----------------------------------------------------------------------------
(* Bounds *)

MaxBytes == 2

\* The clock stops advancing at MaxClock milliseconds.
MaxClock == 100

\* The largest number of entries of an archive.
MaxEntries == 2

----------------------------------------------------------------------------
(* Paths and the file system *)

\* minizlib prints a progress line at most every 100 ms.
ProgressIntervalMs == 100

\* The output directory given on the command line, relative to the working
\* directory.
outputDir == <<"out">>

\* node-zlib: the output file argument, a file inside outputDir.
outputFile == <<"out", "result">>

\* path.dirname of a normalized path with at least one segment.
Dirname(p) == SubSeq(p, 1, Len(p) - 1)

\* All proper ancestors of p and p itself, the root excluded.
Prefixes(p) == { SubSeq(p, 1, n) : n \in 1..Len(p) }

\* fs.mkdirSync(p, { recursive: true })
MkdirRecursive(dirs, p) == dirs \cup Prefixes(p)

\* fs.appendFileSync(p, c): the data is added to a file that exists.
WriteFileAppend(files, p, c) ==
  [q \in (DOMAIN files) \cup {p} |->
     IF q # p THEN files[q]
     ELSE IF p \in DOMAIN files
       THEN [by |-> c.by, bytes |-> files[p].bytes + c.bytes]
     ELSE c]

\* fs.writeFileSync(p, c) that returns: the file holds exactly c afterwards.
WriteFile(files, p, c) ==
  [q \in (DOMAIN files) \cup {p} |-> IF q = p THEN c ELSE files[q]]

NoFiles == [q \in {} |-> [by |-> "none", bytes |-> 0]]

\* A file that lies in the output directory before the sample is started.
oldFile == <<"out", "old.log">>

OldFiles == [q \in {oldFile} |-> [by |-> "before", bytes |-> 1]]

Line(kind, what, n) == [kind |-> kind, what |-> what, n |-> n]

\* path.normalize on a list of segments: "" and "." are dropped, ".." removes
\* the segment before it, or stays when there is none to remove.
RECURSIVE Normalize(_, _)
Normalize(acc, rest) ==
  IF rest = <<>> THEN acc
  ELSE LET seg == Head(rest)
       IN IF seg \in {"", "."} THEN Normalize(acc, Tail(rest))
          ELSE IF seg = ".." /\ acc # <<>> /\ acc[Len(acc)] # ".."
            THEN Normalize(SubSeq(acc, 1, Len(acc) - 1), Tail(rest))
          ELSE Normalize(Append(acc, seg), Tail(rest))

\* path.join(a, b) for a relative directory a.
PathJoin(a, b) == Normalize(<<>>, a \o b)

\* A normalized path lies under the output directory.
InsideRoot(p) == Len(p) >= Len(outputDir) /\ SubSeq(p, 1, Len(outputDir)) = outputDir

\* The characters of the file names that occur in the archives.
Chars ==
  [n \in {"a.txt", "B.TXT", "README", "x.txt", "p", "bad.bin", "c.bin",
          "old.log"} |->
     CASE n = "a.txt"   -> <<"a", ".", "t", "x", "t">>
       [] n = "B.TXT"   -> <<"B", ".", "T", "X", "T">>
       [] n = "README"  -> <<"R", "E", "A", "D", "M", "E">>
       [] n = "x.txt"   -> <<"x", ".", "t", "x", "t">>
       [] n = "p"       -> <<"p">>
       [] n = "bad.bin" -> <<"b", "a", "d", ".", "b", "i", "n">>
       [] n = "c.bin"   -> <<"c", ".", "b", "i", "n">>
       [] n = "old.log" -> <<"o", "l", "d", ".", "l", "o", "g">>]

\* String.prototype.toLowerCase on one character.
LowerChar(c) ==
  CASE c = "B" -> "b" [] c = "T" -> "t" [] c = "X" -> "x" [] c = "R" -> "r"
    [] c = "E" -> "e" [] c = "A" -> "a" [] c = "D" -> "d" [] c = "M" -> "m"
    [] OTHER -> c

ToLowerCase(cs) == [i \in 1..Len(cs) |-> LowerChar(cs[i])]

\* path.extname on the characters of a base name: from the last "." to the
\* end, and empty when there is no "." or the only one is the first character.
ExtName(cs) ==
  LET dots == { i \in 1..Len(cs) : cs[i] = "." }
  IN IF dots = {} THEN <<>>
     ELSE LET last == CHOOSE i \in dots : \A j \in dots : j <= i
          IN IF last = 1 THEN <<>> ELSE SubSeq(cs, last, Len(cs))

NoExtension == <<"(no extension)">>

\* path.extname(p) || '(no extension)': the key keeps the case of the name.
ExtKeyCaseSensitive(p) ==
  LET e == ExtName(Chars[p[Len(p)]])
  IN IF e = <<>> THEN NoExtension ELSE e

\* path.extname(p).toLowerCase() || '(no extension)'
ExtKey(p) ==
  LET e == ToLowerCase(ExtName(Chars[p[Len(p)]]))
  IN IF e = <<>> THEN NoExtension ELSE e

\* a / (ms / 1000) in double arithmetic, for a >= 0 and ms >= 0: a division
\* by zero does not throw, it yields Infinity, and NaN for 0 / 0.  A finite
\* quotient is kept without its fraction.
Divide(a, ms) ==
  IF ms # 0 THEN [is |-> "finite", v |-> (a * 1000) \div ms]
  ELSE IF a # 0 THEN [is |-> "Infinity", v |-> 0]
  ELSE [is |-> "NaN", v |-> 0]

\* count * 100: the division by the total is left out.
PercentUnscaled(count, total) == count * 100

\* Math.round((count / total) * 100) for total > 0
Percent(count, total) == (200 * count + total) \div (2 * total)

\* A Record<string, number> is the list of its keys, in the order in which
\* they were first assigned, each with its value.
KeyIndex(ft, k) ==
  IF \E i \in 1..Len(ft) : ft[i].ext = k
    THEN CHOOSE i \in 1..Len(ft) : ft[i].ext = k
    ELSE 0

\* fileTypes[ext] = 1: the count of an extension seen before is lost.
BumpOverwrite(ft, k) ==
  LET i == KeyIndex(ft, k)
  IN IF i = 0 THEN Append(ft, [ext |-> k, count |-> 1])
     ELSE [ft EXCEPT ![i].count = 1]

\* fileTypes[ext] = (fileTypes[ext] || 0) + 1
Bump(ft, k) ==
  LET i == KeyIndex(ft, k)
  IN IF i = 0 THEN Append(ft, [ext |-> k, count |-> 1])
     ELSE [ft EXCEPT ![i].count = @ + 1]

NoTypes == <<>>

\* The position at which x is put into the sorted list s: behind every
\* element the comparator (a, b) => b[1] - a[1] does not order after x.
InsertPos(s, x) ==
  Cardinality({ i \in 1..Len(s) : s[i].count >= x.count }) + 1

\* Object.entries(ft).sort((a, b) => b[1] - a[1]): Array.prototype.sort is
\* stable, so keys with equal counts keep the order they have in ft.
RECURSIVE SortByCount(_, _)
SortByCount(acc, rest) ==
  IF rest = <<>> THEN acc
  ELSE LET x == Head(rest)
           n == InsertPos(acc, x)
       IN SortByCount(SubSeq(acc, 1, n - 1) \o <<x>> \o SubSeq(acc, n, Len(acc)),
                      Tail(rest))

\* The lines `${ext}: ${count} file(s)` of the summary.
TypeLines(ft) ==
  LET sorted == SortByCount(<<>>, ft)
  IN [i \in 1..Len(sorted) |-> Line("type", sorted[i].ext, sorted[i].count)]

----------------------------------------------------------------------------
(* Compressed payloads of the single-stream samples *)

Strategies == {"deflate", "rawDeflate", "gzip"}

\* The sets of strategies one byte string can be valid for.  A gzip member
\* starts with 0x1f, which is neither a zlib header nor the start of a raw
\* deflate block, so gzip excludes the two others.
ValidSets == { {}, {"deflate"}, {"rawDeflate"}, {"gzip"},
               {"deflate", "rawDeflate"} }

\* ok: the strategies that inflate the payload; bytes: the size of the
\* decompressed data; prefix: the number of bytes a streaming inflater emits
\* before it detects that the stream is invalid.
Payloads ==
  { [ok |-> v, bytes |-> b, prefix |-> k] :
      v \in ValidSets, b \in 1..MaxBytes, k \in 0..MaxBytes }

\* zlib.inflateSync / inflateRawSync / gunzipSync returning.
Decompressed(s) == [by |-> s, bytes |-> payload.bytes]

----------------------------------------------------------------------------
(* Archives of the ZIP samples *)

\* path: the entry name split at "/"; dir: a directory entry; size: the true
\* size of the uncompressed data; declared: the uncompressed size the
\* directory index states; corrupt: the entry's data cannot be decompressed.
Entry(path, dir, size, declared, corrupt) ==
  [path |-> path, dir |-> dir, size |-> size, declared |-> declared,
   corrupt |-> corrupt]

EntryPool ==
  { Entry(<<"a.txt">>, FALSE, 1, 1, FALSE),
    Entry(<<"d", "B.TXT">>, FALSE, 2, 2, FALSE),
    Entry(<<"README">>, FALSE, 1, 1, FALSE),
    Entry(<<"d">>, TRUE, 0, 0, FALSE),
    Entry(<<"e">>, TRUE, 0, 0, FALSE),
    Entry(<<"..", "x.txt">>, FALSE, 1, 1, FALSE),
    Entry(<<"", "etc", "p">>, FALSE, 1, 1, FALSE),
    Entry(<<"bad.bin">>, FALSE, 1, 1, TRUE),
    Entry(<<"c.bin">>, FALSE, 2, 1, FALSE) }

Archives == UNION { [1..n -> EntryPool] : n \in 0..MaxEntries }

\* The data of an entry, as a library returns it.
Content(e) == [by |-> e.path[Len(e.path)], bytes |-> e.size]

----------------------------------------------------------------------------
(* Start of every sample: argument and input validation *)

NoRun == [ran |-> FALSE, files |-> NoFiles, exit |-> "none", loaded |-> FALSE]

StreamProgs == {"nodeZlib", "minizlib"}

ZipProgs == {"minizip", "zipjs", "jszip", "fflate", "admzip", "unzipper"}

Progs == StreamProgs \cup ZipProgs

Init ==
  /\ prog \in Progs
  /\ pc = "validate"
  /\ argc \in {1, 2, 3}
  /\ inputExists \in BOOLEAN
  /\ \/ prog \in StreamProgs /\ payload \in Payloads /\ archive = <<>>
     \/ /\ prog \in ZipProgs
        /\ payload = [ok |-> {}, bytes |-> 1, prefix |-> 0]
        /\ archive \in Archives
  /\ \/ fsDirs = {<<>>} /\ fsFiles = NoFiles
     \/ fsDirs = {<<>>, outputDir} /\ fsFiles \in {NoFiles, OldFiles}
  /\ log = <<>>
  /\ exitCode = "running"
  /\ calls = <<>>
  /\ ioFault = FALSE
  /\ zIdx = 1
  /\ now = 0
  /\ startTime = 0
  /\ lastProgress = 0
  /\ totalBytes = 0
  /\ inputStream = "none"
  /\ outState = "none"
  /\ emitted = 0
  /\ entries = <<>>
  /\ idx = 1
  /\ extractedCount = 0
  /\ fileCount = 0
  /\ dirCount = 0
  /\ fileTypes = NoTypes
  /\ errors = <<>>
  /\ handle = "none"
  /\ closeCount = 0
  /\ first = NoRun

Exit(code) == exitCode' = code /\ pc' = "done"

FirstPc ==
  [nodeZlib |-> "zlib", minizlib |-> "mz", minizip |-> "minizip",
   zipjs |-> "zipjs", jszip |-> "jszip", fflate |-> "fflate",
   admzip |-> "admzip", unzipper |-> "unzipper"]

\* Wall-clock time passing between two steps of a running sample.
Tick ==
  /\ exitCode = "running"
  /\ pc # "validate"
  /\ now + ProgressIntervalMs <= MaxClock
  /\ now' = now + ProgressIntervalMs
  /\ UNCHANGED <<prog, first, pc, argc, inputExists, fsDirs, fsFiles, log, exitCode,
                 ioFault, startTime, totalBytes, streamVars, zipVars>>

\* The sample is started again with the same arguments after a first run in
\* which no write failed has ended: a new process, the file system as the
\* first run left it.
Rerun ==
  /\ pc = "done"
  /\ ~first.ran
  /\ ~ioFault
  /\ first' = [ran |-> TRUE, files |-> fsFiles, exit |-> exitCode,
               loaded |-> \E i \in 1..Len(log) : log[i].kind = "found"]
  /\ pc' = "validate"
  /\ log' = <<>>
  /\ exitCode' = "running"
  /\ calls' = <<>>
  /\ zIdx' = 1
  /\ startTime' = 0
  /\ lastProgress' = 0
  /\ totalBytes' = 0
  /\ inputStream' = "none"
  /\ outState' = "none"
  /\ emitted' = 0
  /\ entries' = <<>>
  /\ idx' = 1
  /\ extractedCount' = 0
  /\ fileCount' = 0
  /\ dirCount' = 0
  /\ fileTypes' = NoTypes
  /\ errors' = <<>>
  /\ handle' = "none"
  /\ closeCount' = 0
  /\ UNCHANGED <<prog, argc, inputExists, payload, archive, fsDirs, fsFiles,
                 ioFault, now>>

\* The checks in another order: the output directory is created before the
\* existence of the input file is checked.
ValidateMkdirFirst ==
  /\ pc = "validate"
  /\ UNCHANGED <<prog, first, argc, inputExists, fsFiles, ioFault, now,
                 startTime, totalBytes, streamVars, zipVars>>
  /\ IF argc # 2
       THEN /\ log' = Append(log, Line("usage", "", 0))
            /\ Exit("exit1")
            /\ UNCHANGED fsDirs
     ELSE /\ fsDirs' = MkdirRecursive(fsDirs, outputDir)
          /\ IF ~inputExists
               THEN /\ log' = Append(log, Line("noInput", "", 0))
                    /\ Exit("exit1")
               ELSE /\ pc' = FirstPc[prog]
                    /\ UNCHANGED <<log, exitCode>>

\* The checks at the top of a sample: the argument count, the existence of
\* the input file, the creation of the output directory.
Validate ==
  /\ pc = "validate"
  /\ UNCHANGED <<prog, first, argc, inputExists, fsFiles, ioFault, now, startTime,
                 totalBytes, streamVars, zipVars>>
  /\ IF argc # 2
       THEN /\ log' = Append(log, Line("usage", "", 0))
            /\ Exit("exit1")
            /\ UNCHANGED fsDirs
     ELSE IF ~inputExists
       THEN /\ log' = Append(log, Line("noInput", "", 0))
            /\ Exit("exit1")
            /\ UNCHANGED fsDirs
     ELSE IF outputDir \in fsDirs
       THEN /\ pc' = FirstPc[prog]
            /\ UNCHANGED <<fsDirs, log, exitCode>>
     ELSE \/ /\ fsDirs' = MkdirRecursive(fsDirs, outputDir)
             /\ pc' = FirstPc[prog]
             /\ UNCHANGED <<log, exitCode>>
          \/ /\ log' = Append(log, Line("mkdirError", "", 0))
             /\ Exit("exit1")
             /\ UNCHANGED fsDirs

----------------------------------------------------------------------------
(* node-zlib sample: the chain inflateSync, inflateRawSync, gunzipSync *)

ZlibOrder == <<"deflate", "rawDeflate", "gzip">>

\* One try block of the chain: decompress, write, report, exit(0); its catch
\* block logs and falls through to the next try block, the last one exits 1.
ZlibAttempt ==
  /\ pc = "zlib"
  /\ LET s == ZlibOrder[zIdx]
         caught ==
           IF zIdx < Len(ZlibOrder)
             THEN /\ log' = Append(log, Line("attemptFailed", s, 0))
                  /\ zIdx' = zIdx + 1
                  /\ UNCHANGED <<pc, exitCode>>
             ELSE /\ log' = Append(log, Line("allFailed", "", 0))
                  /\ Exit("exit1")
                  /\ UNCHANGED zIdx
     IN /\ calls' = Append(calls, s)
        /\ \/ /\ s \in payload.ok
              /\ fsFiles' = WriteFile(fsFiles, outputFile, Decompressed(s))
              /\ log' = Append(log, Line("success", s, payload.bytes))
              /\ Exit("exit0")
              /\ UNCHANGED <<zIdx, ioFault>>
           \/ /\ s \in payload.ok
              /\ ioFault' = TRUE
              /\ caught
              /\ UNCHANGED fsFiles
           \/ /\ s \notin payload.ok
              /\ caught
              /\ UNCHANGED <<fsFiles, ioFault>>
  /\ UNCHANGED <<prog, first, argc, inputExists, payload, fsDirs, now, startTime,
                 totalBytes, lastProgress, inputStream, outState, emitted,
                 zipVars>>

----------------------------------------------------------------------------
(* minizlib sample: a streaming pipeline, then a second one without header *)

\* path.join(outputDir, path.basename(inputFile, '.gz'))
mzOutputPath == <<"out", "payload">>

\* new Unzip(defaultOptions) detects a zlib or a gzip header.
UnzipValid == payload.ok \cap {"deflate", "gzip"} # {}

\* The number of bytes the Unzip stream emits before it ends or fails.
UnzipYield ==
  IF UnzipValid THEN payload.bytes
  ELSE IF payload.prefix < payload.bytes THEN payload.prefix ELSE payload.bytes

MzWritten ==
  IF mzOutputPath \in DOMAIN fsFiles THEN fsFiles[mzOutputPath].bytes ELSE 0

\* Lines 58-110: the streams, the handlers and the first pipeline are set up.
MzBegin ==
  /\ pc = "mz"
  /\ pc' = "mz1"
  /\ startTime' = now
  /\ lastProgress' = now
  /\ totalBytes' = 0
  /\ inputStream' = "flowing"
  /\ outState' = "opening"
  /\ calls' = Append(calls, "deflate")
  /\ log' = Append(log, Line("attempt", "deflate", 0))
  /\ UNCHANGED <<prog, first, argc, inputExists, fsDirs, fsFiles, exitCode, ioFault,
                 now, payload, zIdx, emitted, zipVars>>

\* fs.createWriteStream(outputPath) opens the file with flag 'w'.
MzOutOpen ==
  /\ pc = "mz1"
  /\ outState = "opening"
  /\ outState' = "open"
  /\ fsFiles' = WriteFile(fsFiles, mzOutputPath, [by |-> "unzip", bytes |-> 0])
  /\ UNCHANGED <<prog, first, pc, argc, inputExists, fsDirs, log, exitCode, ioFault,
                 now, startTime, totalBytes, payload, calls, zIdx,
                 lastProgress, inputStream, emitted, zipVars>>

\* unzip.on('data'): one chunk leaves the Unzip stream.
MzData ==
  /\ pc = "mz1"
  /\ emitted < UnzipYield
  /\ emitted' = emitted + 1
  /\ totalBytes' = totalBytes + 1
  /\ IF now - lastProgress >= ProgressIntervalMs
       THEN /\ log' = log \o <<Line("progress", "", totalBytes'),
                               Line("speed", "progress",
                                    Divide(totalBytes', now - startTime))>>
            /\ lastProgress' = now
       ELSE UNCHANGED <<log, lastProgress>>
  /\ UNCHANGED <<prog, first, pc, argc, inputExists, fsDirs, fsFiles, exitCode,
                 ioFault, now, startTime, payload, calls, zIdx, inputStream,
                 outState, zipVars>>

\* The write stream writes one buffered chunk to the file.
MzFlush ==
  /\ pc = "mz1"
  /\ outState = "open"
  /\ MzWritten < emitted
  /\ fsFiles' = WriteFile(fsFiles, mzOutputPath,
                          [by |-> "unzip", bytes |-> MzWritten + 1])
  /\ UNCHANGED <<prog, first, pc, argc, inputExists, fsDirs, log, exitCode, ioFault,
                 now, startTime, totalBytes, streamVars, zipVars>>

\* unzip.on('error') (lines 77-80): the handler ends the process.
MzUnzipError ==
  /\ pc = "mz1"
  /\ ~UnzipValid
  /\ emitted = UnzipYield
  /\ log' = Append(log, Line("decompressError", "deflate", 0))
  /\ Exit("exit1")
  /\ UNCHANGED <<prog, first, argc, inputExists, fsDirs, fsFiles, ioFault, now,
                 startTime, totalBytes, streamVars, zipVars>>

\* The first pipeline resolves (lines 112-121).
MzComplete ==
  /\ pc = "mz1"
  /\ UnzipValid
  /\ emitted = UnzipYield
  /\ outState = "open"
  /\ MzWritten = emitted
  /\ log' = log \o <<Line("success", "deflate", totalBytes),
                     Line("speed", "average",
                          Divide(totalBytes, now - startTime))>>
  /\ Exit("exit0")
  /\ UNCHANGED <<prog, first, argc, inputExists, fsDirs, fsFiles, ioFault, now,
                 startTime, totalBytes, streamVars, zipVars>>

\* The write stream fails: the first pipeline rejects, which destroys its
\* streams, and the catch block of line 122 runs.
MzOutError ==
  /\ pc = "mz1"
  /\ pc' = "mz2"
  /\ ioFault' = TRUE
  /\ inputStream' = "destroyed"
  /\ outState' = "none"
  /\ log' = Append(log, Line("attemptFailed", "deflate", 0))
  /\ UNCHANGED <<prog, first, argc, inputExists, fsDirs, fsFiles, exitCode, now,
                 startTime, totalBytes, payload, calls, zIdx, lastProgress,
                 emitted, zipVars>>

\* Lines 126-152: the second pipeline reads the input stream the first one
\* has destroyed, so it rejects; its new write stream may have opened, and
\* so truncated, the output file before.
MzMethod2 ==
  /\ pc = "mz2"
  /\ inputStream = "destroyed"
  /\ calls' = Append(calls, "rawDeflate")
  /\ \/ fsFiles' = WriteFile(fsFiles, mzOutputPath, [by |-> "unzip", bytes |-> 0])
     \/ UNCHANGED fsFiles
  /\ log' = log \o <<Line("allFailed", "", 0), Line("fatal", "", 0)>>
  /\ Exit("exit1")
  /\ UNCHANGED <<prog, first, argc, inputExists, fsDirs, ioFault, now, startTime,
                 totalBytes, payload, zIdx, lastProgress, inputStream,
                 outState, emitted, zipVars>>

----------------------------------------------------------------------------
(* Helpers of the per-entry loops of the ZIP samples *)

\* path.join(outputDir, entry.path)
TargetPath(e) == PathJoin(outputDir, e.path)

\* if (!fs.existsSync(d)) fs.mkdirSync(d, { recursive: true })
EnsureDir(dirs, d) == IF d \in dirs THEN dirs ELSE MkdirRecursive(dirs, d)

EntryError(e, reason) == [path |-> e.path, reason |-> reason]

----------------------------------------------------------------------------
(* minizip sample *)

\* Lines 54-72: the archive is read and opened and its entries are listed.
MinizipLoad ==
  /\ pc = "minizip"
  /\ startTime' = now
  /\ \/ /\ log' = Append(log, Line("fatal", "openArchive", 0))
        /\ Exit("exit1")
        /\ UNCHANGED <<handle, entries>>
     \/ /\ handle' = "open"
        /\ log' = Append(log, Line("fatal", "getEntries", 0))
        /\ Exit("exit1")
        /\ UNCHANGED entries
     \/ /\ handle' = "open"
        /\ entries' = archive
        /\ log' = Append(log, Line("found", "", Len(archive)))
        /\ pc' = "minizipLoop"
        /\ UNCHANGED exitCode
  /\ extractedCount' = 0
  /\ totalBytes' = 0
  /\ fileTypes' = NoTypes
  /\ UNCHANGED <<prog, first, argc, inputExists, fsDirs, fsFiles, ioFault, now,
                 streamVars, archive, idx, fileCount, dirCount, errors,
                 closeCount>>

\* Lines 75-118: one iteration of the loop over the entries, with its
\* try/catch.
MinizipEntry ==
  /\ pc = "minizipLoop"
  /\ idx <= Len(entries)
  /\ LET entry == entries[idx]
         outputPath == TargetPath(entry)
     IN \/ /\ entry.dir
           /\ extractedCount' = extractedCount + 1
           /\ UNCHANGED <<fsDirs, fsFiles, totalBytes, fileTypes, errors, log,
                          ioFault>>
        \/ /\ ~entry.dir
           /\ entry.corrupt
           /\ fsDirs' = EnsureDir(fsDirs, Dirname(outputPath))
           /\ errors' = Append(errors, EntryError(entry, "extract"))
           /\ UNCHANGED <<fsFiles, totalBytes, fileTypes, extractedCount, log,
                          ioFault>>
        \/ /\ ~entry.dir
           /\ ~entry.corrupt
           /\ fsDirs' = EnsureDir(fsDirs, Dirname(outputPath))
           /\ ioFault' = TRUE
           /\ errors' = Append(errors, EntryError(entry, "write"))
           /\ UNCHANGED <<fsFiles, totalBytes, fileTypes, extractedCount, log>>
        \/ /\ ~entry.dir
           /\ ~entry.corrupt
           /\ fsDirs' = EnsureDir(fsDirs, Dirname(outputPath))
           /\ fsFiles' = WriteFile(fsFiles, outputPath, Content(entry))
           /\ totalBytes' = totalBytes + entry.size
           /\ fileTypes' = Bump(fileTypes, ExtKey(entry.path))
           /\ extractedCount' = extractedCount + 1
           /\ log' = log \o <<Line("extracted", entry.path[Len(entry.path)],
                                   entry.size),
                              Line("percent", "",
                                   Percent(extractedCount', Len(entries))),
                              Line("speed", "progress",
                                   Divide(totalBytes', now - startTime))>>
           /\ UNCHANGED <<errors, ioFault>>
  /\ idx' = idx + 1
  /\ UNCHANGED <<prog, first, pc, argc, inputExists, exitCode, now, startTime,
                 streamVars, archive, entries, fileCount, dirCount, handle,
                 closeCount>>

\* Lines 120-138: the archive is closed and the summary is printed.
MinizipFinish ==
  /\ pc = "minizipLoop"
  /\ idx > Len(entries)
  /\ handle' = "closed"
  /\ closeCount' = closeCount + 1
  /\ log' = log \o <<Line("completed", "", totalBytes),
                     Line("speed", "average",
                          Divide(totalBytes, now - startTime))>>
               \o TypeLines(fileTypes)
  /\ Exit("exit0")
  /\ UNCHANGED <<prog, first, argc, inputExists, fsDirs, fsFiles, ioFault, now,
                 startTime, totalBytes, streamVars, archive, entries, idx,
                 extractedCount, fileCount, dirCount, fileTypes, errors>>

----------------------------------------------------------------------------
(* zip.js sample *)

\* Lines 135-146: the archive is read, a ZipReader is created and the
\* entries are listed.
ZipjsLoad ==
  /\ pc = "zipjs"
  /\ handle' = "open"
  /\ \/ /\ log' = Append(log, Line("fatal", "getEntries", 0))
        /\ Exit("exit1")
        /\ UNCHANGED entries
     \/ /\ entries' = archive
        /\ log' = Append(log, Line("found", "", Len(archive)))
        /\ pc' = "zipjsLoop"
        /\ UNCHANGED exitCode
  /\ UNCHANGED <<prog, first, argc, inputExists, fsDirs, fsFiles, ioFault, now,
                 startTime, totalBytes, streamVars, archive, idx,
                 extractedCount, fileCount, dirCount, fileTypes, errors,
                 closeCount>>

\* Lines 149-165: one iteration of the loop; an error leaves the loop for the
\* catch block of line 169.
ZipjsEntry ==
  /\ pc = "zipjsLoop"
  /\ idx <= Len(entries)
  /\ LET entry == entries[idx]
         outputPath == TargetPath(entry)
     IN \/ /\ entry.dir
           /\ idx' = idx + 1
           /\ UNCHANGED <<fsDirs, fsFiles, log, ioFault, pc, exitCode>>
        \/ /\ ~entry.dir
           /\ entry.corrupt
           /\ fsDirs' = EnsureDir(fsDirs, Dirname(outputPath))
           /\ log' = Append(log, Line("fatal", entry.path[Len(entry.path)], 0))
           /\ Exit("exit1")
           /\ UNCHANGED <<fsFiles, ioFault, idx>>
        \/ /\ ~entry.dir
           /\ ~entry.corrupt
           /\ fsDirs' = EnsureDir(fsDirs, Dirname(outputPath))
           /\ ioFault' = TRUE
           /\ log' = Append(log, Line("fatal", entry.path[Len(entry.path)], 0))
           /\ Exit("exit1")
           /\ UNCHANGED <<fsFiles, idx>>
        \/ /\ ~entry.dir
           /\ ~entry.corrupt
           /\ fsDirs' = EnsureDir(fsDirs, Dirname(outputPath))
           /\ fsFiles' = WriteFile(fsFiles, outputPath, Content(entry))
           /\ log' = Append(log, Line("extracted", entry.path[Len(entry.path)], 0))
           /\ idx' = idx + 1
           /\ UNCHANGED <<ioFault, pc, exitCode>>
  /\ UNCHANGED <<prog, first, argc, inputExists, now, startTime, totalBytes,
                 streamVars, archive, entries, extractedCount, fileCount,
                 dirCount, fileTypes, errors, handle, closeCount>>

\* Lines 167-168: the reader is closed and success is reported.
ZipjsFinish ==
  /\ pc = "zipjsLoop"
  /\ idx > Len(entries)
  /\ handle' = "closed"
  /\ closeCount' = closeCount + 1
  /\ log' = Append(log, Line("completed", "", 0))
  /\ Exit("exit0")
  /\ UNCHANGED <<prog, first, argc, inputExists, fsDirs, fsFiles, ioFault, now,
                 startTime, totalBytes, streamVars, archive, entries, idx,
                 extractedCount, fileCount, dirCount, fileTypes, errors>>

----------------------------------------------------------------------------
(* Libraries that return the entries as an object keyed by entry name *)

\* The position of the entry with the name of e in es, 0 when there is none.
\* A directory entry's name ends with "/", a file entry's name does not.
IndexOf(es, e) ==
  IF \E i \in 1..Len(es) : es[i].path = e.path /\ es[i].dir = e.dir
    THEN CHOOSE i \in 1..Len(es) : es[i].path = e.path /\ es[i].dir = e.dir
    ELSE 0

\* files[name] = e: a new key is added last, an old key keeps its place.
Put(es, e) ==
  LET i == IndexOf(es, e)
  IN IF i = 0 THEN Append(es, e) ELSE [es EXCEPT ![i] = e]

\* The own keys of the object after the entries were assigned in order.
RECURSIVE Keyed(_, _)
Keyed(acc, rest) ==
  IF rest = <<>> THEN acc ELSE Keyed(Put(acc, Head(rest)), Tail(rest))

Folder(path) == Entry(path, TRUE, 0, 0, FALSE)

\* JSZip's createFolders: the folders above path that are no key yet are
\* added, the outermost first.
RECURSIVE WithFolders(_, _, _)
WithFolders(acc, path, n) ==
  IF n >= Len(path) THEN acc
  ELSE LET f == Folder(SubSeq(path, 1, n))
       IN WithFolders(IF IndexOf(acc, f) = 0 THEN Append(acc, f) ELSE acc,
                      path, n + 1)

\* Object.keys(zipContent.files) after loadAsync(data, {createFolders: true})
RECURSIVE JszipKeys(_, _)
JszipKeys(acc, rest) ==
  IF rest = <<>> THEN acc
  ELSE LET e == Head(rest)
       IN JszipKeys(Put(WithFolders(acc, e.path, 1), e), Tail(rest))

AnyCorrupt(es) == \E i \in 1..Len(es) : es[i].corrupt

----------------------------------------------------------------------------
(* JSZip sample *)

\* loadAsync's rejection is logged and the entries are extracted all the same.
JszipLoadLenient ==
  /\ pc = "jszip"
  /\ entries' = JszipKeys(<<>>, archive)
  /\ log' = log \o <<Line("fatal", "loadAsync", 0),
                     Line("found", "", Len(entries'))>>
  /\ startTime' = now
  /\ pc' = "jszipLoop"
  /\ extractedCount' = 0
  /\ fileTypes' = NoTypes
  /\ UNCHANGED <<prog, first, argc, inputExists, fsDirs, fsFiles, ioFault, now,
                 totalBytes, streamVars, archive, idx, fileCount, dirCount,
                 errors, handle, closeCount, exitCode>>

\* Lines 42-64: loadAsync with checkCRC32 inflates every entry, so it rejects
\* an archive with an entry that cannot be inflated.
JszipLoad ==
  /\ pc = "jszip"
  /\ \/ /\ log' = Append(log, Line("fatal", "loadAsync", 0))
        /\ Exit("exit1")
        /\ UNCHANGED <<entries, startTime>>
     \/ /\ ~AnyCorrupt(archive)
        /\ entries' = JszipKeys(<<>>, archive)
        /\ log' = Append(log, Line("found", "", Len(entries')))
        /\ startTime' = now
        /\ pc' = "jszipLoop"
        /\ UNCHANGED exitCode
  /\ extractedCount' = 0
  /\ fileTypes' = NoTypes
  /\ UNCHANGED <<prog, first, argc, inputExists, fsDirs, fsFiles, ioFault, now,
                 totalBytes, streamVars, archive, idx, fileCount, dirCount,
                 errors, handle, closeCount>>

\* Lines 67-109: one iteration of the loop; the try/catch covers only the
\* extraction of a file.
JszipEntry ==
  /\ pc = "jszipLoop"
  /\ idx <= Len(entries)
  /\ LET entry == entries[idx]
         outputPath == TargetPath(entry)
     IN \/ /\ entry.dir
           /\ extractedCount' = extractedCount + 1
           /\ UNCHANGED <<fsDirs, fsFiles, fileTypes, errors, log, ioFault>>
        \/ /\ ~entry.dir
           /\ fsDirs' = EnsureDir(fsDirs, Dirname(outputPath))
           /\ ioFault' = TRUE
           /\ errors' = Append(errors, EntryError(entry, "write"))
           /\ UNCHANGED <<fsFiles, fileTypes, extractedCount, log>>
        \/ /\ ~entry.dir
           /\ fsDirs' = EnsureDir(fsDirs, Dirname(outputPath))
           /\ fsFiles' = WriteFile(fsFiles, outputPath, Content(entry))
           /\ fileTypes' = Bump(fileTypes, ExtKey(entry.path))
           /\ extractedCount' = extractedCount + 1
           /\ log' = log \o <<Line("extracted", entry.path[Len(entry.path)],
                                   extractedCount'),
                              Line("percent", "",
                                   Percent(extractedCount', Len(entries))),
                              Line("speed", "progress",
                                   Divide(extractedCount', now - startTime))>>
           /\ UNCHANGED <<errors, ioFault>>
  /\ idx' = idx + 1
  /\ UNCHANGED <<prog, first, pc, argc, inputExists, exitCode, now, startTime,
                 totalBytes, streamVars, archive, entries, fileCount,
                 dirCount, handle, closeCount>>

\* Lines 111-125: the summary is printed.
JszipFinish ==
  /\ pc = "jszipLoop"
  /\ idx > Len(entries)
  /\ log' = log \o <<Line("completed", "", extractedCount),
                     Line("speed", "average",
                          Divide(extractedCount, now - startTime))>>
               \o TypeLines(fileTypes)
  /\ Exit("exit0")
  /\ UNCHANGED <<prog, first, argc, inputExists, fsDirs, fsFiles, ioFault, now,
                 startTime, totalBytes, streamVars, zipVars>>

----------------------------------------------------------------------------
(* fflate sample *)

\* getFileTypeStats(outputDir): the extensions of the files found by walking
\* the output directory, with the number of files of each.
FilesUnder(files, d) ==
  { q \in DOMAIN files : Len(q) > Len(d) /\ SubSeq(q, 1, Len(d)) = d }

\* The orders in which readdir can list the files below d.
Walks(files, d) ==
  LET S == FilesUnder(files, d)
  IN { w \in [1..Cardinality(S) -> S] :
         \A i, j \in 1..Cardinality(S) : w[i] = w[j] => i = j }

RECURSIVE StatsAlong(_, _)
StatsAlong(stats, w) ==
  IF w = <<>> THEN stats
  ELSE StatsAlong(Bump(stats, ExtKey(Head(w))), Tail(w))

\* The results getFileTypeStats(d) can return.
GetFileTypeStats(files, d) == { StatsAlong(NoTypes, w) : w \in Walks(files, d) }

\* What unzipSync returns for the archive: an object keyed by entry name.  An
\* entry is inflated into a buffer of its declared size, so the data of an
\* entry whose declared size is wrong has its true or its declared length.
UnzipSync(arch, sized) ==
  Keyed(<<>>, [i \in 1..Len(arch) |->
                 IF sized = "declared"
                   THEN [arch[i] EXCEPT !.size = arch[i].declared]
                   ELSE arch[i]])

\* Lines 80-88: the archive is read and unzipSync inflates all of it.
FflateLoad ==
  /\ pc = "fflate"
  /\ startTime' = now
  /\ totalBytes' = 0
  /\ fileCount' = 0
  /\ dirCount' = 0
  /\ \/ /\ log' = Append(log, Line("fatal", "unzipSync", 0))
        /\ Exit("exit1")
        /\ UNCHANGED entries
     \/ /\ ~AnyCorrupt(archive)
        /\ \E sized \in {"true", "declared"} :
             entries' = UnzipSync(archive, sized)
        /\ pc' = "fflateLoop"
        /\ UNCHANGED <<log, exitCode>>
  /\ UNCHANGED <<prog, first, argc, inputExists, fsDirs, fsFiles, ioFault, now,
                 streamVars, archive, idx, extractedCount, fileTypes, errors,
                 handle, closeCount>>

\* Lines 91-108: one iteration of the loop; there is no try/catch in it, and
\* writing to a name that ends with "/" throws.
FflateEntry ==
  /\ pc = "fflateLoop"
  /\ idx <= Len(entries)
  /\ LET entry == entries[idx]
         filePath == TargetPath(entry)
         fileDir == Dirname(filePath)
     IN /\ fsDirs' = EnsureDir(fsDirs, fileDir)
        /\ \/ /\ entry.dir
              /\ log' = Append(log, Line("fatal", entry.path[Len(entry.path)], 0))
              /\ Exit("exit1")
              /\ UNCHANGED <<fsFiles, totalBytes, fileCount, idx, ioFault>>
           \/ /\ ~entry.dir
              /\ ioFault' = TRUE
              /\ log' = Append(log, Line("fatal", entry.path[Len(entry.path)], 0))
              /\ Exit("exit1")
              /\ UNCHANGED <<fsFiles, totalBytes, fileCount, idx>>
           \/ /\ ~entry.dir
              /\ fsFiles' = WriteFile(fsFiles, filePath, Content(entry))
              /\ totalBytes' = totalBytes + entry.size
              /\ fileCount' = fileCount + 1
              /\ log' = Append(log, Line("extracted", entry.path[Len(entry.path)],
                                         entry.size))
              /\ idx' = idx + 1
              /\ UNCHANGED <<pc, exitCode, ioFault>>
  /\ UNCHANGED <<prog, first, argc, inputExists, now, startTime, streamVars, archive,
                 entries, extractedCount, dirCount, fileTypes, errors, handle,
                 closeCount>>

\* Lines 110-135: the output directory is walked for the file types and the
\* summary is printed.
FflateFinish ==
  /\ pc = "fflateLoop"
  /\ idx > Len(entries)
  /\ fileTypes' \in GetFileTypeStats(fsFiles, outputDir)
  /\ log' = log \o <<Line("completed", "", fileCount),
                     Line("speed", "average",
                          Divide(totalBytes, now - startTime))>>
               \o TypeLines(fileTypes')
  /\ Exit("exit0")
  /\ UNCHANGED <<prog, first, argc, inputExists, fsDirs, fsFiles, ioFault, now,
                 startTime, totalBytes, streamVars, archive, entries, idx,
                 extractedCount, fileCount, dirCount, errors, handle,
                 closeCount>>

----------------------------------------------------------------------------
(* Bulk extraction by a library: adm-zip's extractAllTo, unzipper's Extract *)

\* A normalized path without its leading ".." segments.
RECURSIVE DropEscapes(_)
DropEscapes(p) ==
  IF p # <<>> /\ Head(p) = ".." THEN DropEscapes(Tail(p)) ELSE p

\* Where the library writes entry e, <<>> when it skips the entry: adm-zip
\* moves a name that leaves the target directory back into it, unzipper's
\* Extract skips it.
LibTarget(e) ==
  IF prog = "admzip" THEN outputDir \o DropEscapes(Normalize(<<>>, e.path))
  ELSE IF InsideRoot(TargetPath(e)) THEN TargetPath(e) ELSE <<>>

\* The file system after the library has extracted the first k entries.
RECURSIVE Bulk(_)
Bulk(k) ==
  IF k = 0 THEN [dirs |-> fsDirs, files |-> fsFiles]
  ELSE LET prev == Bulk(k - 1)
           e == entries[k]
           t == LibTarget(e)
       IN IF t = <<>> THEN prev
          ELSE IF e.dir
            THEN [dirs |-> MkdirRecursive(prev.dirs, t), files |-> prev.files]
          ELSE [dirs |-> EnsureDir(prev.dirs, Dirname(t)),
                files |-> WriteFile(prev.files, t, Content(e))]

\* The method-1 try block without its return statement: method 2 follows a
\* bulk extraction that succeeded, too.
BulkExtractNoReturn(loopPc) ==
  \E k \in 0..Len(entries) :
    /\ \A i \in 1..k : ~entries[i].corrupt
    /\ fsDirs' = Bulk(k).dirs
    /\ fsFiles' = Bulk(k).files
    /\ calls' = Append(calls, "bulk")
    /\ pc' = loopPc
    /\ UNCHANGED exitCode
    /\ IF k = Len(entries)
         THEN /\ log' = Append(log, Line("bulkOk", "", k))
              /\ UNCHANGED ioFault
         ELSE /\ log' = Append(log, Line("bulkFailed", "", k))
              /\ ioFault' = (ioFault \/ ~entries[k + 1].corrupt)

\* The method-1 try block of adm-zip.ts (lines 51-58) and unzipperjs.ts
\* (lines 55-65): the library extracts k entries and then returns, or throws
\* at entry k + 1, whose data is corrupt or whose write fails.
BulkExtract(loopPc) ==
  \E k \in 0..Len(entries) :
    /\ \A i \in 1..k : ~entries[i].corrupt
    /\ fsDirs' = Bulk(k).dirs
    /\ fsFiles' = Bulk(k).files
    /\ calls' = Append(calls, "bulk")
    /\ IF k = Len(entries)
         THEN /\ log' = Append(log, Line("bulkOk", "", k))
              /\ Exit("exit0")
              /\ UNCHANGED ioFault
         ELSE /\ log' = Append(log, Line("bulkFailed", "", k))
              /\ pc' = loopPc
              /\ ioFault' = (ioFault \/ ~entries[k + 1].corrupt)
              /\ UNCHANGED exitCode

----------------------------------------------------------------------------
(* adm-zip sample *)

\* Lines 41-48: the archive is opened and its entries are listed.
AdmLoad ==
  /\ pc = "admzip"
  /\ \/ /\ log' = Append(log, Line("fatal", "AdmZip", 0))
        /\ Exit("exit1")
        /\ UNCHANGED entries
     \/ /\ entries' = archive
        /\ log' = Append(log, Line("found", "", Len(archive)))
        /\ pc' = "admBulk"
        /\ UNCHANGED exitCode
  /\ UNCHANGED <<prog, first, argc, inputExists, fsDirs, fsFiles, ioFault, now,
                 startTime, totalBytes, streamVars, archive, idx,
                 extractedCount, fileCount, dirCount, fileTypes, errors,
                 handle, closeCount>>

\* Lines 51-58: zip.extractAllTo(outputDir, true)
AdmBulk ==
  /\ pc = "admBulk"
  /\ BulkExtract("admLoop")
  /\ UNCHANGED <<prog, first, argc, inputExists, now, startTime, totalBytes, payload,
                 zIdx, lastProgress, inputStream, outState, emitted, zipVars>>

\* Lines 61-76: one iteration of the loop of method 2; the try/catch is
\* around the whole loop, so an error ends the loop and the process.
AdmEntry ==
  /\ pc = "admLoop"
  /\ idx <= Len(entries)
  /\ LET entry == entries[idx]
         outputPath == TargetPath(entry)
         outputDirPath == Dirname(outputPath)
         name == entry.path[Len(entry.path)]
     IN \/ /\ entry.dir
           /\ idx' = idx + 1
           /\ UNCHANGED <<fsDirs, fsFiles, log, ioFault, pc, exitCode>>
        \/ /\ ~entry.dir
           /\ entry.corrupt
           /\ fsDirs' = EnsureDir(fsDirs, outputDirPath)
           /\ log' = log \o <<Line("individualFailed", name, 0),
                              Line("fatal", name, 0)>>
           /\ Exit("exit1")
           /\ UNCHANGED <<fsFiles, ioFault, idx>>
        \/ /\ ~entry.dir
           /\ ~entry.corrupt
           /\ fsDirs' = EnsureDir(fsDirs, outputDirPath)
           /\ ioFault' = TRUE
           /\ log' = log \o <<Line("individualFailed", name, 0),
                              Line("fatal", name, 0)>>
           /\ Exit("exit1")
           /\ UNCHANGED <<fsFiles, idx>>
        \/ /\ ~entry.dir
           /\ ~entry.corrupt
           /\ fsDirs' = EnsureDir(fsDirs, outputDirPath)
           /\ fsFiles' = WriteFile(fsFiles, PathJoin(outputDirPath, <<name>>),
                                   Content(entry))
           /\ log' = Append(log, Line("extracted", name, 0))
           /\ idx' = idx + 1
           /\ UNCHANGED <<ioFault, pc, exitCode>>
  /\ calls' = IF idx = 1 THEN Append(calls, "individual") ELSE calls
  /\ UNCHANGED <<prog, first, argc, inputExists, now, startTime, totalBytes, payload,
                 zIdx, lastProgress, inputStream, outState, emitted, archive,
                 entries, extractedCount, fileCount, dirCount, fileTypes,
                 errors, handle, closeCount>>

\* Lines 77-78: method 2 has extracted every entry.
AdmFinish ==
  /\ pc = "admLoop"
  /\ idx > Len(entries)
  /\ log' = Append(log, Line("individualOk", "", 0))
  /\ Exit("exit0")
  /\ UNCHANGED <<prog, first, argc, inputExists, fsDirs, fsFiles, ioFault, now,
                 startTime, totalBytes, streamVars, zipVars>>

----------------------------------------------------------------------------
(* unzipper sample *)

\* Lines 45-52: a read stream is created and the directory is read.
UnzipperLoad ==
  /\ pc = "unzipper"
  /\ \/ /\ log' = Append(log, Line("fatal", "Open.file", 0))
        /\ Exit("exit1")
        /\ UNCHANGED entries
     \/ /\ entries' = archive
        /\ log' = Append(log, Line("found", "", Len(archive)))
        /\ pc' = "unzipperBulk"
        /\ UNCHANGED exitCode
  /\ UNCHANGED <<prog, first, argc, inputExists, fsDirs, fsFiles, ioFault, now,
                 startTime, totalBytes, streamVars, archive, idx,
                 extractedCount, fileCount, dirCount, fileTypes, errors,
                 handle, closeCount>>

\* Lines 55-65: a new read stream of the input is piped into
\* unzipper.Extract({ path: outputDir }).
UnzipperBulk ==
  /\ pc = "unzipperBulk"
  /\ BulkExtract("unzipperLoop")
  /\ UNCHANGED <<prog, first, argc, inputExists, now, startTime, totalBytes, payload,
                 zIdx, lastProgress, inputStream, outState, emitted, zipVars>>

\* Lines 68-84: one iteration of the loop of method 2 over directory.files,
\* which holds the directory entries too; the write stream of a name that
\* ends with "/" fails, and the write stream of a file is opened before the
\* data of the entry is inflated.
UnzipperEntry ==
  /\ pc = "unzipperLoop"
  /\ idx <= Len(entries)
  /\ LET entry == entries[idx]
         outputPath == TargetPath(entry)
         name == entry.path[Len(entry.path)]
         failed == /\ log' = log \o <<Line("individualFailed", name, 0),
                                      Line("fatal", name, 0)>>
                   /\ Exit("exit1")
                   /\ UNCHANGED idx
     IN /\ fsDirs' = EnsureDir(fsDirs, Dirname(outputPath))
        /\ \/ /\ entry.dir
              /\ failed
              /\ UNCHANGED <<fsFiles, ioFault>>
           \/ /\ ~entry.dir
              /\ entry.corrupt
              /\ fsFiles' = WriteFile(fsFiles, outputPath,
                                      [by |-> name, bytes |-> 0])
              /\ failed
              /\ UNCHANGED ioFault
           \/ /\ ~entry.dir
              /\ ~entry.corrupt
              /\ ioFault' = TRUE
              /\ failed
              /\ UNCHANGED fsFiles
           \/ /\ ~entry.dir
              /\ ~entry.corrupt
              /\ fsFiles' = WriteFile(fsFiles, outputPath, Content(entry))
              /\ log' = Append(log, Line("extracted", name, 0))
              /\ idx' = idx + 1
              /\ UNCHANGED <<ioFault, pc, exitCode>>
  /\ calls' = IF idx = 1 THEN Append(calls, "individual") ELSE calls
  /\ UNCHANGED <<prog, first, argc, inputExists, now, startTime, totalBytes, payload,
                 zIdx, lastProgress, inputStream, outState, emitted, archive,
                 entries, extractedCount, fileCount, dirCount, fileTypes,
                 errors, handle, closeCount>>

\* Lines 85-86: method 2 has extracted every entry.
UnzipperFinish ==
  /\ pc = "unzipperLoop"
  /\ idx > Len(entries)
  /\ log' = Append(log, Line("individualOk", "", 0))
  /\ Exit("exit0")
  /\ UNCHANGED <<prog, first, argc, inputExists, fsDirs, fsFiles, ioFault, now,
                 startTime, totalBytes, streamVars, zipVars>>

----------------------------------------------------------------------------

Next ==
  \/ Validate
  \/ Rerun
  \/ Tick
  \/ ZlibAttempt
  \/ MzBegin
  \/ MzOutOpen
  \/ MzData
  \/ MzFlush
  \/ MzUnzipError
  \/ MzComplete
  \/ MzOutError
  \/ MzMethod2
  \/ MinizipLoad
  \/ MinizipEntry
  \/ MinizipFinish
  \/ ZipjsLoad
  \/ ZipjsEntry
  \/ ZipjsFinish
  \/ JszipLoad
  \/ JszipEntry
  \/ JszipFinish
  \/ FflateLoad
  \/ FflateEntry
  \/ FflateFinish
  \/ AdmLoad
  \/ AdmBulk
  \/ AdmEntry
  \/ AdmFinish
  \/ UnzipperLoad
  \/ UnzipperBulk
  \/ UnzipperEntry
  \/ UnzipperFinish

Spec == Init /\ [][Next]_vars

----------------------------------------------------------------------------
(* Vocabulary of the properties *)

Done == pc = "done"

HasLine(kind) == \E i \in 1..Len(log) : log[i].kind = kind

\* The strategy named by the success line of the single-stream samples.
Reported ==
  IF HasLine("success")
    THEN log[CHOOSE i \in 1..Len(log) : log[i].kind = "success"].what
    ELSE "none"

\* The first strategy of the sample's chain that inflates the payload.
FirstValid ==
  IF prog = "minizlib"
    THEN (IF UnzipValid THEN "deflate"
          ELSE IF "rawDeflate" \in payload.ok THEN "rawDeflate" ELSE "none")
  ELSE IF \E i \in 1..Len(ZlibOrder) : ZlibOrder[i] \in payload.ok
    THEN ZlibOrder[CHOOSE i \in 1..Len(ZlibOrder) :
                     /\ ZlibOrder[i] \in payload.ok
                     /\ \A j \in 1..(i - 1) : ZlibOrder[j] \notin payload.ok]
  ELSE "none"

\* The output file of the single-stream samples.
StreamOutput == IF prog = "minizlib" THEN mzOutputPath ELSE outputFile

RECURSIVE SumOver(_, _)
SumOver(f, S) ==
  IF S = {} THEN 0
  ELSE LET x == CHOOSE y \in S : TRUE IN f[x] + SumOver(f, S \ {x})

FileEntries(es) == { i \in 1..Len(es) : ~es[i].dir }

DirEntries(es) == { i \in 1..Len(es) : es[i].dir }

TrueBytes(es) == SumOver([i \in 1..Len(es) |-> es[i].size], FileEntries(es))

\* The sizes printed in the "extracted" lines, added up.
ExtractedLines == { i \in 1..Len(log) : log[i].kind = "extracted" }

ExtractedBytes == SumOver([i \in 1..Len(log) |-> log[i].n], ExtractedLines)

TypeTotal ==
  SumOver([i \in 1..Len(fileTypes) |-> fileTypes[i].count], 1..Len(fileTypes))

\* No entry of the archive is damaged: the data of every entry inflates and
\* has the size the directory index declares.
Intact(es) == \A i \in 1..Len(es) : ~es[i].corrupt /\ es[i].declared = es[i].size

DistinctNames(es) ==
  \A i, j \in 1..Len(es) :
    (es[i].path = es[j].path /\ es[i].dir = es[j].dir) => i = j

\* The entry's target leaves the output directory, or its name is absolute.
Unsafe(e) == e.path[1] = "" \/ ~InsideRoot(TargetPath(e))

\* The per-entry loop of the sample has been entered.
LoopEntered ==
  IF prog \in {"admzip", "unzipper"} THEN HasLine("bulkFailed")
  ELSE HasLine("found")

HasError(path, reason) ==
  \E i \in 1..Len(errors) : errors[i].path = path /\ errors[i].reason = reason

----------------------------------------------------------------------------
(* C1 *)

\* C1: the strategies are called in the order deflate, raw deflate, gzip, and
\* a run in which no write fails ends with success, reported for the first
\* strategy that inflates the payload, after exactly the calls up to it.
C1_OrderedFallback ==
  prog \in StreamProgs =>
    /\ \A i \in 1..Len(calls) : calls[i] = ZlibOrder[i]
    /\ (Done /\ calls # <<>> /\ ~ioFault /\ FirstValid # "none") =>
         /\ exitCode = "exit0"
         /\ Reported = FirstValid
         /\ calls[Len(calls)] = FirstValid
         /\ ~HasLine("allFailed") /\ ~HasLine("decompressError")

----------------------------------------------------------------------------
(* C2 *)

\* C2: the output file of a single-stream sample is absent or empty, or its
\* bytes are the output of a strategy that inflates the payload, and after a
\* successful run it holds all of that output: a failed attempt leaves no
\* byte in it.
C2_FailedAttemptWritesNothing ==
  (prog \in StreamProgs /\ StreamOutput \in DOMAIN fsFiles) =>
    LET f == fsFiles[StreamOutput]
    IN \/ f.bytes = 0
       \/ /\ IF prog = "minizlib" THEN UnzipValid
             ELSE \E s \in payload.ok : f = Decompressed(s)
          /\ (Done /\ exitCode = "exit0") => f.bytes = payload.bytes

----------------------------------------------------------------------------
(* C3 *)

\* C3: no file and no directory is created outside the output directory, and
\* every handled entry whose name is absolute or leaves the output directory
\* has been rejected with a path-traversal error.
C3_PathSafety ==
  (prog \in {"minizip", "fflate", "unzipper"} /\ ~ioFault) =>
    /\ \A q \in DOMAIN fsFiles : InsideRoot(q)
    /\ \A d \in fsDirs : d = <<>> \/ InsideRoot(d)
    /\ \A i \in 1..Len(entries) :
         (i < idx /\ ~entries[i].dir /\ Unsafe(entries[i])) =>
           HasError(entries[i].path, "pathTraversal")

----------------------------------------------------------------------------
(* C4 *)

\* C4: a run that has entered the per-entry loop ends only after every entry
\* has been attempted, whatever entries failed.
C4_ContinueAfterFailure ==
  (prog \in {"minizip", "zipjs", "admzip"} /\ Done /\ LoopEntered) =>
    idx = Len(entries) + 1

----------------------------------------------------------------------------
(* C5 *)

\* C5: after all entries have been processed the run ends as completed
\* exactly when no per-entry failure occurred, and as a partial failure
\* otherwise.
C5_OutcomeTellsFailures ==
  (prog \in {"minizip", "jszip"} /\ Done /\ LoopEntered) =>
    /\ (errors = <<>>) => (HasLine("completed") /\ exitCode = "exit0")
    /\ (errors # <<>>) => (HasLine("partialFailure") /\ ~HasLine("completed"))

----------------------------------------------------------------------------
(* C6 *)

\* C6: the archive handle is closed at most once, and a run that opened it
\* has closed it exactly once when it ends.
C6_HandleClosedOnce ==
  prog \in {"minizip", "zipjs"} =>
    /\ closeCount <= 1
    /\ (Done /\ handle # "none") => (handle = "closed" /\ closeCount = 1)

----------------------------------------------------------------------------
(* C7 *)

\* C7: an entry whose data inflates to a size other than its declared,
\* nonzero size is reported as an integrity error and is not reported as
\* extracted.
C7_SizeMismatchIsError ==
  (prog = "minizip" /\ ~ioFault) =>
    \A i \in 1..Len(entries) :
      LET e == entries[i]
      IN (i < idx /\ ~e.dir /\ ~e.corrupt /\ e.declared # 0
            /\ e.size # e.declared) =>
           /\ HasError(e.path, "integrity")
           /\ ~\E j \in ExtractedLines : log[j].what = e.path[Len(e.path)]

----------------------------------------------------------------------------
(* C9 *)

\* C9: after a successful run every directory entry of the archive exists as
\* a directory under the output directory and is counted in the directory
\* statistic, and no file was written for it.
C9_DirectoriesCreated ==
  (prog \in {"minizip", "fflate", "unzipper"} /\ Done /\ exitCode = "exit0") =>
    /\ \A i \in DirEntries(entries) :
         /\ TargetPath(entries[i]) \in fsDirs
         /\ TargetPath(entries[i]) \notin DOMAIN fsFiles
    /\ prog = "fflate" => dirCount = Cardinality(DirEntries(entries))

----------------------------------------------------------------------------
(* C10 *)

\* C10: the byte total is the number of bytes of the entries reported as
\* extracted, the extension counts add up to the number of those entries,
\* and a run whose decompression failed has added nothing to the byte total.
C10_StatsOnlyOnSuccess ==
  /\ prog = "minizip" =>
       /\ totalBytes = ExtractedBytes
       /\ TypeTotal = Cardinality(ExtractedLines)
  /\ (prog = "minizlib" /\ Done) =>
       IF exitCode = "exit0" THEN totalBytes = MzWritten ELSE totalBytes = 0

----------------------------------------------------------------------------
(* C8 *)

\* The file count a sample reports: fflate prints fileCount, minizip prints
\* the number of files of every extension.
FileCountReported == IF prog = "fflate" THEN fileCount ELSE TypeTotal

\* The run has printed its summary and no entry has failed.
CompletedClean ==
  /\ prog \in {"minizip", "fflate"}
  /\ Done
  /\ exitCode = "exit0"
  /\ HasLine("completed")
  /\ errors = <<>>

\* C8 as stated: for every intact archive a completed run reports as many
\* files as the archive has file entries and as many bytes as their true
\* sizes add up to.
C8_CountsMatchArchive ==
  (CompletedClean /\ Intact(archive)) =>
    /\ FileCountReported = Cardinality(FileEntries(archive))
    /\ totalBytes = TrueBytes(archive)

\* C8 amended: the same for every intact archive whose entry names are
\* pairwise distinct.
C8_CountsMatchDistinctArchive ==
  (CompletedClean /\ Intact(archive) /\ DistinctNames(archive)) =>
    /\ FileCountReported = Cardinality(FileEntries(archive))
    /\ totalBytes = TrueBytes(archive)

\* A completed minizip run over an intact archive with a directory entry and
\* a file entry.
C8_Witness ==
  /\ CompletedClean
  /\ prog = "minizip"
  /\ Intact(archive)
  /\ DistinctNames(archive)
  /\ DirEntries(archive) # {}
  /\ FileEntries(archive) # {}
  /\ totalBytes > 0

----------------------------------------------------------------------------
(* C11 *)

\* The code unit of a character of an extension key; the key of the files
\* without extension begins with "(".
CharCode(c) ==
  CASE c = "(no extension)" -> 40
    [] c = "." -> 46
    [] c = "b" -> 98
    [] c = "g" -> 103
    [] c = "i" -> 105
    [] c = "l" -> 108
    [] c = "n" -> 110
    [] c = "o" -> 111
    [] c = "t" -> 116
    [] c = "x" -> 120

\* a < b for two strings, compared code unit by code unit.
RECURSIVE StringLess(_, _)
StringLess(a, b) ==
  IF b = <<>> THEN FALSE
  ELSE IF a = <<>> THEN TRUE
  ELSE IF Head(a) # Head(b) THEN CharCode(Head(a)) < CharCode(Head(b))
  ELSE StringLess(Tail(a), Tail(b))

\* The extension lines of the summary, in the order in which they were
\* printed.
IsTypeLine(l) == l.kind = "type"

SummaryLines == SelectSeq(log, IsTypeLine)

\* C11: the extension lines of the final summary are ordered by count
\* descending, and lines with equal counts by extension string ascending.
C11_SummarySorted ==
  (prog = "minizip" /\ Done) =>
    \A i, j \in 1..Len(SummaryLines) :
      i < j =>
        \/ SummaryLines[i].n > SummaryLines[j].n
        \/ /\ SummaryLines[i].n = SummaryLines[j].n
           /\ StringLess(SummaryLines[i].what, SummaryLines[j].what)

----------------------------------------------------------------------------
(* C12 *)

\* The extension of a file name without regard to letter case, <<>> when the
\* name has none.
FoldedExt(name) == ToLowerCase(ExtName(Chars[name]))

\* The names of the files the extension counts of the sample are about, one
\* for every file counted: the entries reported as extracted, and for fflate
\* the files found below the output directory.
CountedNames ==
  IF prog = "fflate"
    THEN LET S == FilesUnder(fsFiles, outputDir)
             w == CHOOSE v \in Walks(fsFiles, outputDir) : TRUE
         IN [i \in 1..Cardinality(S) |-> w[i][Len(w[i])]]
    ELSE LET lines == SelectSeq(log, LAMBDA l : l.kind = "extracted")
         IN [i \in 1..Len(lines) |-> lines[i].what]

\* The count the sample holds for extension key k, 0 when k is no key.
CountOf(k) ==
  IF KeyIndex(fileTypes, k) = 0 THEN 0
  ELSE fileTypes[KeyIndex(fileTypes, k)].count

\* The extension counts have been computed for the files counted.
CountsReady ==
  \/ prog \in {"minizip", "jszip"}
  \/ prog = "fflate" /\ Done /\ HasLine("completed")

\* C12: names whose extensions differ only in letter case are counted under
\* one key, a name without extension is counted under "(no extension)", and
\* the counts add up to the number of files counted.
C12_BucketingTotal ==
  CountsReady =>
    LET names == CountedNames
        N == 1..Len(names)
    IN /\ \A i, j \in 1..Len(fileTypes) :
            fileTypes[i].ext = fileTypes[j].ext => i = j
       /\ Len(fileTypes) = Cardinality({ FoldedExt(names[i]) : i \in N })
       /\ \A i \in N :
            FoldedExt(names[i]) # <<>> =>
              CountOf(FoldedExt(names[i])) =
                Cardinality({ j \in N : FoldedExt(names[j]) = FoldedExt(names[i]) })
       /\ CountOf(NoExtension) =
            Cardinality({ i \in N : FoldedExt(names[i]) = <<>> })
       /\ TypeTotal = Len(names)

\* A finished minizip run has counted a.txt and d/B.TXT under the one key
\* ".txt".
C12_Witness ==
  /\ prog = "minizip"
  /\ Done
  /\ \E i, j \in 1..Len(CountedNames) :
       CountedNames[i] = "a.txt" /\ CountedNames[j] = "B.TXT"
  /\ CountOf(<<".", "t", "x", "t">>) = 2

----------------------------------------------------------------------------
(* C13 *)

\* The throughput values printed so far, by the progress lines and by the
\* summary.
SpeedLines == SelectSeq(log, LAMBDA l : l.kind = "speed")

\* C13: no throughput is the result of a division by a zero elapsed time: a
\* value printed when no time has elapsed is unbounded, never not-a-number.
C13_NoZeroDivision ==
  prog \in {"minizip", "minizlib"} =>
    \A i \in 1..Len(SpeedLines) : SpeedLines[i].n.is \in {"finite", "Infinity"}

----------------------------------------------------------------------------
(* C14 *)

\* Opening the archive or reading its directory has failed in this run.
LoadFailed ==
  \E i \in 1..Len(log) :
    /\ log[i].kind = "fatal"
    /\ log[i].what \in {"openArchive", "getEntries", "loadAsync", "unzipSync",
                        "AdmZip", "Open.file"}

\* C14: a run in which opening the archive or reading its directory failed
\* has ended with a failure status without attempting an entry, without
\* writing a file and without a success summary.
C14_LoadFailureIsFatal ==
  (prog \in ZipProgs /\ LoadFailed) =>
    /\ Done /\ exitCode = "exit1"
    /\ idx = 1 /\ entries = <<>> /\ calls = <<>>
    /\ ExtractedLines = {} /\ errors = <<>>
    /\ IF first.ran THEN fsFiles = first.files
       ELSE fsFiles \in {NoFiles, OldFiles}
    /\ ~HasLine("completed") /\ ~HasLine("bulkOk") /\ ~HasLine("individualOk")

\* loadAsync has rejected an archive that holds a file entry.
C14_Witness ==
  /\ prog = "jszip"
  /\ Done
  /\ LoadFailed
  /\ FileEntries(archive) # {}
  /\ AnyCorrupt(archive)

----------------------------------------------------------------------------
(* C15 *)

\* The sample has run twice on the same archive into the same output
\* directory, both runs have read the directory of the archive and no write
\* has failed.
RanTwice ==
  /\ prog \in ZipProgs \ {"fflate"}
  /\ first.ran /\ first.loaded
  /\ Done /\ HasLine("found")
  /\ ~ioFault

\* C15: after the second of two runs in a row every file has the contents
\* it had after the first run, and the second run ends as the first did: it
\* does not fail because the files exist.
C15_IdempotentOverwrite ==
  RanTwice => (fsFiles = first.files /\ exitCode = first.exit)

\* The second run of the minizip sample has extracted a file entry that the
\* first run had extracted before.
C15_Witness ==
  /\ RanTwice
  /\ prog = "minizip"
  /\ exitCode = "exit0"
  /\ \E i \in ExtractedLines :
       \E q \in DOMAIN first.files :
         /\ first.files[q].by = log[i].what
         /\ q \in DOMAIN fsFiles

----------------------------------------------------------------------------
(* C16 *)

\* The extension key of a file name, as the samples compute it.
KeyOfName(name) ==
  IF FoldedExt(name) = <<>> THEN NoExtension ELSE FoldedExt(name)

\* C16: the statistics of a completed fflate run whose entries all lie in
\* the output directory are those of the entries this run has extracted:
\* the extension counts add up to the file count, and every extension
\* counted is the extension of an entry extracted by this run.
C16_StatsOfThisRunOnly ==
  (/\ prog = "fflate" /\ Done /\ HasLine("completed")
   /\ \A i \in 1..Len(entries) : InsideRoot(TargetPath(entries[i]))) =>
    /\ TypeTotal = fileCount
    /\ \A i \in 1..Len(fileTypes) :
         \E j \in ExtractedLines : KeyOfName(log[j].what) = fileTypes[i].ext

----------------------------------------------------------------------------
(* C17 *)

\* The run is in, or has left, the per-entry loop of a sample that counts
\* the entries it has processed.
Counting == prog \in {"minizip", "jszip"} /\ HasLine("found")

\* After k entries the counter is k minus the number of entries that failed,
\* it does not exceed the number of entries, every percentage printed lies
\* in 0..100, and at the end it is the number of entries exactly when no
\* entry failed.
CounterExact ==
  Counting =>
    /\ extractedCount = (idx - 1) - Len(errors)
    /\ extractedCount <= Len(entries)
    /\ \A i \in 1..Len(log) :
         log[i].kind = "percent" => (log[i].n >= 0 /\ log[i].n <= 100)
    /\ Done => (extractedCount = Len(entries) <=> errors = <<>>)

\* Within one run neither the counter nor the byte total decreases.
CounterMonotonic ==
  (prog \in {"minizip", "jszip"} /\ first' = first) =>
    (extractedCount' >= extractedCount /\ totalBytes' >= totalBytes)

\* C17: the processed-entry counter of the per-entry loop is exact and
\* bounded by the number of entries, and it and the byte total never
\* decrease.
C17_CounterMonotonicExact == [](CounterExact) /\ [][CounterMonotonic]_vars

\* A finished minizip run in which one entry failed and another one was
\* extracted, so the counter is 1 of 2.
C17_Witness ==
  /\ prog = "minizip"
  /\ Done
  /\ Len(entries) = 2
  /\ Len(errors) = 1
  /\ extractedCount = 1
  /\ totalBytes > 0

----------------------------------------------------------------------------
(* C18 *)

\* C18: the entry-by-entry method is started only after the bulk method has
\* failed and never after it has succeeded; the run ends with success when
\* one of the two methods has completed and with a failure status exactly
\* when both have failed.
C18_TwoLevelFallback ==
  prog \in {"admzip", "unzipper"} =>
    /\ calls \in {<<>>, <<"bulk">>, <<"bulk", "individual">>}
    /\ (pc \in {"admLoop", "unzipperLoop"} \/ Len(calls) = 2) =>
         (HasLine("bulkFailed") /\ ~HasLine("bulkOk"))
    /\ HasLine("bulkOk") =>
         (Done /\ exitCode = "exit0" /\ calls = <<"bulk">>)
    /\ (Done /\ calls # <<>>) =>
         /\ exitCode = "exit0" <=> (HasLine("bulkOk") \/ HasLine("individualOk"))
         /\ exitCode = "exit1" <=>
              (HasLine("bulkFailed") /\ HasLine("individualFailed"))

\* The bulk extraction of adm-zip has failed and the entry-by-entry
\* extraction after it has completed.
C18_Witness ==
  /\ prog = "admzip"
  /\ Done
  /\ calls = <<"bulk", "individual">>
  /\ HasLine("bulkFailed")
  /\ HasLine("individualOk")
  /\ exitCode = "exit0"

----------------------------------------------------------------------------
(* C19 *)

\* C19: an attempt that follows a failed attempt reads the compressed input
\* from its first byte: it is not given an input stream that the failed
\* attempt has consumed or destroyed.
C19_FallbackReadsWholeInput ==
  (prog \in StreamProgs /\ Len(calls) >= 2) => inputStream # "destroyed"

----------------------------------------------------------------------------
(* C20 *)

\* The sample was started with a wrong number of arguments or with an input
\* file that does not exist.
BadInvocation == argc # 2 \/ ~inputExists

\* C20: a run with a wrong number of arguments or without its input file
\* ends with a failure status in the validation and changes nothing in the
\* file system: no directory is created and no file is written.
C20_InvalidInputTouchesNothing ==
  /\ [](BadInvocation =>
          /\ pc \in {"validate", "done"}
          /\ Done => exitCode = "exit1"
          /\ log = <<>> \/ HasLine("usage") \/ HasLine("noInput"))
  /\ [][BadInvocation => (fsDirs' = fsDirs /\ fsFiles' = fsFiles)]_vars

\* A run with two arguments has ended because its input file is missing,
\* and the output directory, which did not exist, still does not.
C20_Witness ==
  /\ argc = 2
  /\ ~inputExists
  /\ Done
  /\ exitCode = "exit1"
  /\ HasLine("noInput")
  /\ outputDir \notin fsDirs

====
